---- MODULE Spec2Model ----
(***************************************************************************)
(* tuna: World / Object / Script.                                          *)
(*                                                                         *)
(* The World owns a mapping ObjectID -> Object, a kill queue (a set of     *)
(* ObjectIDs) and the id counter last_id.  An Object owns an ordered       *)
(* sequence of Script instances.  dispatch<METHOD> reconciles the kill     *)
(* queue (dead hooks, erase) and then invokes METHOD on the scripts of the *)
(* objects that were not queued.  The model follows the revision that has  *)
(* the dead hook (src/unnamed/part_000); src/tuna.hh holds the revisions   *)
(* without it, whose create / kill / seek / grant / take are the same.     *)
(***************************************************************************)
EXTENDS Integers, Sequences, FiniteSets, TLC

\* the record of a call: its name, its arguments, <<its return value>>
\* (defined ahead of every other record so that TLC compares the name first
\* and never compares the arguments or results of two different calls)
Call(name, arg, ret) == [name |-> name, arg |-> arg, ret |-> ret]

----------------------------------------------------------------------------
(* Bounds of the exploration.                                              *)

\* create calls between two clean calls
MaxCreate == 2
\* Script instances constructed by grant over a whole run
MaxInst == 2

----------------------------------------------------------------------------
(* ObjectID = std::uint64_t, kept as four 16-bit limbs, least significant  *)
(* first, so that the arithmetic is the arithmetic modulo 2^64.            *)

Limb == 65536

U64(n) == <<n, 0, 0, 0>>

\* (ObjectID)-1
U64Max == <<Limb - 1, Limb - 1, Limb - 1, Limb - 1>>

\* ++x on a std::uint64_t
Inc(x) ==
    IF x[1] < Limb - 1 THEN <<x[1] + 1, x[2], x[3], x[4]>>
    ELSE IF x[2] < Limb - 1 THEN <<0, x[2] + 1, x[3], x[4]>>
    ELSE IF x[3] < Limb - 1 THEN <<0, 0, x[3] + 1, x[4]>>
    ELSE IF x[4] < Limb - 1 THEN <<0, 0, 0, x[4] + 1>>
    ELSE <<0, 0, 0, 0>>

\* a < b on std::uint64_t
U64Less(a, b) ==
    \/ a[4] < b[4]
    \/ a[4] = b[4] /\ a[3] < b[3]
    \/ a[4] = b[4] /\ a[3] = b[3] /\ a[2] < b[2]
    \/ a[4] = b[4] /\ a[3] = b[3] /\ a[2] = b[2] /\ a[1] < b[1]

----------------------------------------------------------------------------
(* Script classes of the client program.  A and B override nothing that    *)
(* touches the World.  C derives from A; each of its hooks calls           *)
(* world.kill(target), target being its constructor argument.              *)

ScriptTypes == {"A", "B", "C"}

\* dynamic_cast<T*>(script) != nullptr
Derives(type, T) == type = T \/ (type = "C" /\ T = "A")

\* the METHOD arguments of dispatch that are explored
Hooks == {"loop", "tick"}

\* ObjectIDs given to seek / kill / grant / take and to the constructor of C
IdInputs == {U64(0), U64(1), U64(2)}

\* the script classes Spec grants and takes: their hooks do not call back
\* into the World (C, whose hooks call kill, is left to a specification of
\* its own)
PassiveTypes == {"A", "B"}

\* constructor argument of a script class that takes none
NoArg == U64(0)

CtorArgs(T) == IF T = "C" THEN {U64(0), U64(1)} ELSE {NoArg}

----------------------------------------------------------------------------
(* Object                                                                  *)

\* find that returns the last match
FindLast(scripts, T) ==
    LET hits == {i \in 1..Len(scripts) : Derives(scripts[i].type, T)}
    IN  IF hits = {} THEN Len(scripts) + 1
        ELSE CHOOSE i \in hits : \A j \in hits : i >= j

\* find that starts at the second script
FindFromSecond(scripts, T) ==
    LET hits == {i \in 2..Len(scripts) : Derives(scripts[i].type, T)}
    IN  IF hits = {} THEN Len(scripts) + 1
        ELSE CHOOSE i \in hits : \A j \in hits : i <= j

\* Object::find<T>: index of the first match, Len + 1 for scripts.end()
Find(scripts, T) ==
    LET hits == {i \in 1..Len(scripts) : Derives(scripts[i].type, T)}
    IN  IF hits = {} THEN Len(scripts) + 1
        ELSE CHOOSE i \in hits : \A j \in hits : i <= j

\* grant that constructs and attaches whatever the object carries
GrantOpAlways(scripts, T, args, inst) ==
    [scripts |-> Append(scripts, [inst |-> inst, type |-> T, target |-> args]),
     ret |-> inst, made |-> TRUE]

\* Object::grant<T>(args): inst is the instance make_shared would construct
GrantOp(scripts, T, args, inst) ==
    LET found == Find(scripts, T)
    IN  IF found # Len(scripts) + 1
        THEN [scripts |-> scripts, ret |-> scripts[found].inst, made |-> FALSE]
        ELSE [scripts |-> Append(scripts, [inst |-> inst, type |-> T, target |-> args]),
              ret |-> inst, made |-> TRUE]

\* take that drops the last script when nothing matches
TakeOpPopBack(scripts, T) ==
    LET found == Find(scripts, T)
    IN  IF found = Len(scripts) + 1
        THEN [scripts |-> SubSeq(scripts, 1, Len(scripts) - 1), ret |-> FALSE]
        ELSE [scripts |-> [i \in 1..(Len(scripts) - 1) |->
                              IF i < found THEN scripts[i] ELSE scripts[i + 1]],
              ret |-> TRUE]

\* Object::take<T>
TakeOp(scripts, T) ==
    LET found == Find(scripts, T)
    IN  IF found = Len(scripts) + 1
        THEN [scripts |-> scripts, ret |-> FALSE]
        ELSE [scripts |-> [i \in 1..(Len(scripts) - 1) |->
                              IF i < found THEN scripts[i] ELSE scripts[i + 1]],
              ret |-> TRUE]

----------------------------------------------------------------------------
(* World: a record [objects, kill_queue, last_id]                          *)

\* create that numbers the object by objects.size()
CreateOpReuse(w) ==
    LET new_id == U64(Cardinality(DOMAIN w.objects))
    IN  [w |-> [w EXCEPT !.last_id = new_id,
                         !.objects = IF new_id \in DOMAIN @ THEN @
                                     ELSE (new_id :> <<>>) @@ @],
         ret |-> new_id]

\* World::create
CreateOp(w) ==
    LET new_id == Inc(w.last_id)
    IN  [w |-> [w EXCEPT !.last_id = new_id,
                         !.objects = IF new_id \in DOMAIN @ THEN @
                                     ELSE (new_id :> <<>>) @@ @],
         ret |-> new_id]

\* World::seek: TRUE when the returned weak_ptr is not empty
Seek(w, iid) ==
    IF DOMAIN w.objects = {} THEN FALSE
    ELSE iid \in DOMAIN w.objects

\* kill without the objects.contains(iid) test
KillOpUnchecked(w, iid) ==
    [w |-> [w EXCEPT !.kill_queue = @ \cup {iid}], ret |-> TRUE]

\* kill that returns whether the insertion took place
KillOpReportInserted(w, iid) ==
    IF iid \notin DOMAIN w.objects THEN [w |-> w, ret |-> FALSE]
    ELSE [w |-> [w EXCEPT !.kill_queue = @ \cup {iid}], ret |-> iid \notin w.kill_queue]

\* kill that erases the object at once
KillOpEager(w, iid) ==
    IF iid \notin DOMAIN w.objects THEN [w |-> w, ret |-> FALSE]
    ELSE [w |-> [w EXCEPT !.objects = [id \in DOMAIN @ \ {iid} |-> @[id]]], ret |-> TRUE]

\* World::kill
KillOp(w, iid) ==
    IF iid \notin DOMAIN w.objects THEN [w |-> w, ret |-> FALSE]
    ELSE [w |-> [w EXCEPT !.kill_queue = @ \cup {iid}], ret |-> TRUE]

\* one entry of the record of what a call did
Ev(ev, inst, ids) == [ev |-> ev, inst |-> inst, ids |-> ids]

\* the body of a hook of a script: what (script.get()->*METHOD)() does
Invoke(w, script, hook) ==
    IF script.type = "C"
    THEN LET r == KillOp(w, script.target)
         IN  [w |-> r.w,
              trace |-> <<Ev(hook, script.inst, {}), Ev("kill", script.inst, {script.target})>>
                        \o (IF r.w.kill_queue # w.kill_queue
                            THEN <<Ev("insert", script.inst, {script.target})>>
                            ELSE <<>>)]
    ELSE [w |-> w, trace |-> <<Ev(hook, script.inst, {})>>]

\* for(auto& script : scripts) (script.get()->*hook)()
RECURSIVE RunHooks(_, _, _)
RunHooks(w, scripts, hook) ==
    IF scripts = <<>> THEN [w |-> w, trace |-> <<>>]
    ELSE LET r == Invoke(w, Head(scripts), hook)
             s == RunHooks(r.w, Tail(scripts), hook)
         IN  [w |-> s.w, trace |-> r.trace \o s.trace]

\* the scripts of the objects of ids, in the iteration order of the map
RECURSIVE Gather(_, _, _)
Gather(objects, order, ids) ==
    IF order = <<>> THEN <<>>
    ELSE (IF Head(order) \in ids THEN objects[Head(order)] ELSE <<>>)
         \o Gather(objects, Tail(order), ids)

\* the iteration orders an unordered_map with these keys can have
Orders(S) ==
    {s \in [1..Cardinality(S) -> S] : \A i, j \in 1..Cardinality(S) : i # j => s[i] # s[j]}

\* World::dispatch, the scripts put in dead
DeadOf(w, order) ==
    IF w.kill_queue # {} THEN Gather(w.objects, order, w.kill_queue) ELSE <<>>

\* World::dispatch, the scripts put in active
ActiveOf(w, order) ==
    Gather(w.objects, order, DOMAIN w.objects \ w.kill_queue)

\* reconciliation that erases without calling dead
ReconcileSilent(w, dead) ==
    IF dead # <<>>
    THEN [w |-> [w EXCEPT !.objects = [id \in DOMAIN @ \ w.kill_queue |-> @[id]],
                          !.kill_queue = {}],
          trace |-> <<Ev("erase", 0, w.kill_queue)>>]
    ELSE [w |-> w, trace |-> <<>>]

\* reconciliation that calls dead and erases nothing
ReconcileKeep(w, dead) ==
    IF dead # <<>>
    THEN LET r == RunHooks(w, dead, "dead")
         IN  [w |-> r.w, trace |-> r.trace]
    ELSE [w |-> w, trace |-> <<>>]

\* reconciliation that forgets kill_queue.clear()
ReconcileNoClear(w, dead) ==
    IF dead # <<>>
    THEN LET r == RunHooks(w, dead, "dead")
         IN  [w |-> [r.w EXCEPT
                        !.objects = [id \in DOMAIN @ \ r.w.kill_queue |-> @[id]]],
              trace |-> r.trace \o <<Ev("erase", 0, r.w.kill_queue)>>]
    ELSE [w |-> w, trace |-> <<>>]

\* reconciliation that empties objects instead of erasing the queued ids
ReconcileClearAll(w, dead) ==
    IF dead # <<>>
    THEN LET r == RunHooks(w, dead, "dead")
         IN  [w |-> [r.w EXCEPT !.objects = <<>>, !.kill_queue = {}],
              trace |-> r.trace \o <<Ev("erase", 0, DOMAIN r.w.objects)>>]
    ELSE [w |-> w, trace |-> <<>>]

\* reconciliation that empties the kill queue even when it erases nothing
ReconcileClearOnly(w, dead) ==
    IF dead # <<>>
    THEN LET r == RunHooks(w, dead, "dead")
         IN  [w |-> [r.w EXCEPT
                        !.objects = [id \in DOMAIN @ \ r.w.kill_queue |-> @[id]],
                        !.kill_queue = {}],
              trace |-> r.trace \o <<Ev("erase", 0, r.w.kill_queue)>>]
    ELSE [w |-> [w EXCEPT !.kill_queue = {}], trace |-> <<>>]

\* World::dispatch, if(!dead.empty()) { dead hooks; erase; clear }
Reconcile(w, dead) ==
    IF dead # <<>>
    THEN LET r == RunHooks(w, dead, "dead")
         IN  [w |-> [r.w EXCEPT
                        !.objects = [id \in DOMAIN @ \ r.w.kill_queue |-> @[id]],
                        !.kill_queue = {}],
              trace |-> r.trace \o <<Ev("erase", 0, r.w.kill_queue)>>]
    ELSE [w |-> w, trace |-> <<>>]

\* dispatch that resets last_id when the mapping is empty
DispatchOpCleanWhenEmpty(w, hook, order) ==
    IF DOMAIN w.objects = {} THEN [w |-> [w EXCEPT !.last_id = U64Max], trace |-> <<>>]
    ELSE LET r == Reconcile(w, DeadOf(w, order))
             s == RunHooks(r.w, ActiveOf(w, order), hook)
         IN  [w |-> s.w, trace |-> r.trace \o s.trace]

\* dispatch that runs the requested hook before the reconciliation
DispatchOpHooksFirst(w, hook, order) ==
    IF DOMAIN w.objects = {} THEN [w |-> w, trace |-> <<>>]
    ELSE LET s == RunHooks(w, ActiveOf(w, order), hook)
             r == Reconcile(s.w, DeadOf(w, order))
         IN  [w |-> r.w, trace |-> s.trace \o r.trace]

\* World::dispatch<METHOD>
DispatchOp(w, hook, order) ==
    IF DOMAIN w.objects = {} THEN [w |-> w, trace |-> <<>>]
    ELSE LET r == Reconcile(w, DeadOf(w, order))
             s == RunHooks(r.w, ActiveOf(w, order), hook)
         IN  [w |-> s.w, trace |-> r.trace \o s.trace]

\* clean that forgets last_id = -1
CleanOpKeepId(w, order) ==
    LET r == IF DOMAIN w.objects # {}
             THEN LET d == RunHooks(w, Gather(w.objects, order, DOMAIN w.objects), "dead")
                  IN  [w |-> [d.w EXCEPT !.objects = <<>>],
                       trace |-> d.trace \o <<Ev("erase", 0, DOMAIN d.w.objects)>>]
             ELSE [w |-> w, trace |-> <<>>]
    IN  [w |-> [r.w EXCEPT !.kill_queue = {}], trace |-> r.trace]

\* clean that clears without calling dead
CleanOpSilent(w, order) ==
    LET r == IF DOMAIN w.objects # {}
             THEN [w |-> [w EXCEPT !.objects = <<>>],
                   trace |-> <<Ev("erase", 0, DOMAIN w.objects)>>]
             ELSE [w |-> w, trace |-> <<>>]
    IN  [w |-> [r.w EXCEPT !.kill_queue = {}, !.last_id = U64Max],
         trace |-> r.trace]

\* clean that leaves kill_queue as it is
CleanOpKeepQueue(w, order) ==
    LET r == IF DOMAIN w.objects # {}
             THEN LET d == RunHooks(w, Gather(w.objects, order, DOMAIN w.objects), "dead")
                  IN  [w |-> [d.w EXCEPT !.objects = <<>>],
                       trace |-> d.trace \o <<Ev("erase", 0, DOMAIN d.w.objects)>>]
             ELSE [w |-> w, trace |-> <<>>]
    IN  [w |-> [r.w EXCEPT !.last_id = U64Max], trace |-> r.trace]

\* World::clean
CleanOp(w, order) ==
    LET r == IF DOMAIN w.objects # {}
             THEN LET d == RunHooks(w, Gather(w.objects, order, DOMAIN w.objects), "dead")
                  IN  [w |-> [d.w EXCEPT !.objects = <<>>],
                       trace |-> d.trace \o <<Ev("erase", 0, DOMAIN d.w.objects)>>]
             ELSE [w |-> w, trace |-> <<>>]
    IN  [w |-> [r.w EXCEPT !.kill_queue = {}, !.last_id = U64Max],
         trace |-> r.trace]

----------------------------------------------------------------------------
(* State                                                                   *)

VARIABLES
    objects,      \* World::objects: ObjectID -> Object::scripts
    kill_queue,   \* World::kill_queue
    last_id,      \* World::last_id
    next_inst,    \* number of Script instances constructed so far
    op,           \* the last call: its name and, where a property reads them, its
                  \* arguments (kill: <<iid, iid was already queued>>; clean: <<some
                  \* object was queued, some object was not>>; dispatch: <<hook, the
                  \* live ids of wiped>>) and <<its return value>>
    trace,        \* the hooks, nested kills and erasure of the last call, in order
    issued,       \* the ids returned by create since construction or the last clean
    recycled,     \* some clean was called after create had issued two ids or more
    ndead,        \* Script instance -> how many times it received dead
    late,         \* Script instances that received a hook after dead
    wiped         \* the ids, among those followed, that were pending removal when
                  \* clean was last called and whose later object no dispatch has
                  \* met yet

vars == <<objects, kill_queue, last_id, next_inst, op, trace, issued, recycled, ndead, late,
          wiped>>

world == [objects |-> objects, kill_queue |-> kill_queue, last_id |-> last_id]

Insts == 1..MaxInst

\* positions of trace tr at which instance i receives hook ev
At(tr, i, ev) == {k \in 1..Len(tr) : tr[k].inst = i /\ tr[k].ev = ev}

\* positions of trace tr at which instance i receives a hook other than dead
HookAt(tr, i) == {k \in 1..Len(tr) : tr[k].inst = i /\ tr[k].ev \in Hooks}

\* the ids that the kills recorded in tr put into kill_queue
Inserted(tr) == UNION {tr[k].ids : k \in {j \in 1..Len(tr) : tr[j].ev = "insert"}}

Min2(n) == IF n > 2 THEN 2 ELSE n

\* bookkeeping of the dead hooks over the whole run
Account(tr) ==
    /\ ndead' = [i \in Insts |-> Min2(ndead[i] + Cardinality(At(tr, i, "dead")))]
    /\ late' = late \cup
          {i \in Insts :
              \/ ndead[i] > 0 /\ HookAt(tr, i) # {}
              \/ \E d \in At(tr, i, "dead") : \E k \in HookAt(tr, i) : d < k}

SetWorld(w) ==
    /\ objects' = w.objects
    /\ kill_queue' = w.kill_queue
    /\ last_id' = w.last_id

Init ==
    /\ objects = <<>>
    /\ kill_queue = {}
    /\ last_id = U64Max
    /\ next_inst = 0
    /\ op = Call("new", <<>>, <<>>)
    /\ trace = <<>>
    /\ issued = <<>>
    /\ recycled = FALSE
    /\ ndead = [i \in Insts |-> 0]
    /\ late = {}
    /\ wiped = {}

Create ==
    /\ Len(issued) < MaxCreate
    /\ LET r == CreateOp(world)
       IN  /\ SetWorld(r.w)
           /\ op' = Call("create", <<>>, <<r.ret>>)
           /\ issued' = Append(issued, r.ret)
    /\ trace' = <<>>
    /\ UNCHANGED <<next_inst, recycled, ndead, late, wiped>>

\* grant<T>(args) on a live object, T among types
GrantOf(types) ==
    \E iid \in DOMAIN objects : \E T \in types : \E args \in CtorArgs(T) :
        LET r == GrantOp(objects[iid], T, args, next_inst + 1)
        IN  /\ r.made => next_inst < MaxInst
            /\ objects' = [objects EXCEPT ![iid] = r.scripts]
            /\ next_inst' = IF r.made THEN next_inst + 1 ELSE next_inst
            /\ op' = Call("grant", <<>>, <<>>)
            /\ trace' = <<>>
            /\ UNCHANGED <<kill_queue, last_id, issued, recycled, ndead, late, wiped>>

\* take<T>() on a live object, T among types
TakeOf(types) ==
    \E iid \in DOMAIN objects : \E T \in types :
        LET r == TakeOp(objects[iid], T)
        IN  /\ objects' = [objects EXCEPT ![iid] = r.scripts]
            /\ op' = Call("take", <<>>, <<>>)
            /\ trace' = <<>>
            /\ UNCHANGED <<kill_queue, last_id, next_inst, issued, recycled, ndead, late, wiped>>

Grant == GrantOf(PassiveTypes)

Take == TakeOf(PassiveTypes)

Kill ==
    \E iid \in IdInputs :
        LET r == KillOp(world, iid)
        IN  /\ SetWorld(r.w)
            /\ op' = Call("kill", <<iid, iid \in kill_queue>>, <<r.ret>>)
            /\ trace' = <<>>
            /\ UNCHANGED <<next_inst, issued, recycled, ndead, late, wiped>>

\* dispatch<hook>(), hook among hooks
DispatchOf(hooks) ==
    \E hook \in hooks : \E order \in Orders(DOMAIN objects) :
        LET r == DispatchOp(world, hook, order)
        IN  /\ SetWorld(r.w)
            /\ op' = Call("dispatch", <<hook, wiped \cap DOMAIN objects>>, <<>>)
            /\ trace' = r.trace
            /\ Account(r.trace)
            /\ wiped' = wiped \ DOMAIN objects
            /\ UNCHANGED <<next_inst, issued, recycled>>

Dispatch == DispatchOf(Hooks)

\* clean(), the bookkeeping of wiped following the ids of follow
CleanOf(follow) ==
    \E order \in Orders(DOMAIN objects) :
        LET r == CleanOp(world, order)
        IN  /\ SetWorld(r.w)
            /\ op' = Call("clean",
                          <<\E id \in DOMAIN objects : id \in kill_queue,
                            \E id \in DOMAIN objects : id \notin kill_queue>>,
                          <<>>)
            /\ trace' = r.trace
            /\ Account(r.trace)
            /\ issued' = <<>>
            /\ recycled' = (recycled \/ Len(issued) >= 2)
            /\ wiped' = (kill_queue \cup Inserted(r.trace)) \cap follow
            /\ UNCHANGED next_inst

Clean == CleanOf({})

Next ==
    \/ Create
    \/ Grant
    \/ Take
    \/ Kill
    \/ Dispatch
    \/ Clean

Spec == Init /\ [][Next]_vars

----------------------------------------------------------------------------
(* The World with scripts whose hooks call back into it: B and C are       *)
(* granted and taken, and loop is the hook dispatched.                     *)

\* the script classes SpecHooks grants and takes
CallbackTypes == {"B", "C"}

GrantAny == GrantOf(CallbackTypes)

TakeAny == TakeOf(CallbackTypes)

DispatchLoop == DispatchOf({"loop"})

NextHooks ==
    \/ Create
    \/ GrantAny
    \/ TakeAny
    \/ Kill
    \/ DispatchLoop
    \/ Clean

SpecHooks == Init /\ [][NextHooks]_vars

----------------------------------------------------------------------------
(* Object::grant and Object::take on the objects of a World, with the      *)
(* script classes related by inheritance; op keeps the arguments and the   *)
(* return value of the call.                                               *)

\* some script of scripts matches T
Has(scripts, T) == \E i \in 1..Len(scripts) : Derives(scripts[i].type, T)

\* grant<T>(args): op.arg = <<iid, T, args, a script matched T before the
\* call>>, op.ret = <<the instance returned>>
ObjGrant ==
    \E iid \in DOMAIN objects : \E T \in ScriptTypes : \E args \in CtorArgs(T) :
        LET r == GrantOp(objects[iid], T, args, next_inst + 1)
        IN  /\ r.made => next_inst < MaxInst
            /\ objects' = [objects EXCEPT ![iid] = r.scripts]
            /\ next_inst' = IF r.made THEN next_inst + 1 ELSE next_inst
            /\ op' = Call("grant", <<iid, T, args, Has(objects[iid], T)>>, <<r.ret>>)
            /\ trace' = <<>>
            /\ UNCHANGED <<kill_queue, last_id, issued, recycled, ndead, late, wiped>>

\* take<T>(): op.arg = <<iid, T>>, op.ret = <<the value returned>>
ObjTake ==
    \E iid \in DOMAIN objects : \E T \in ScriptTypes :
        LET r == TakeOp(objects[iid], T)
        IN  /\ objects' = [objects EXCEPT ![iid] = r.scripts]
            /\ op' = Call("take", <<iid, T>>, <<r.ret>>)
            /\ trace' = <<>>
            /\ UNCHANGED <<kill_queue, last_id, next_inst, issued, recycled, ndead, late, wiped>>

NextObject ==
    \/ Create
    \/ ObjGrant
    \/ ObjTake

SpecObject == Init /\ [][NextObject]_vars

----------------------------------------------------------------------------
(* The World with the removal requests of the first id followed across     *)
(* clean                                                                   *)

CleanFollowed == CleanOf({U64(0)})

NextReset ==
    \/ Create
    \/ Grant
    \/ Kill
    \/ DispatchLoop
    \/ CleanFollowed

SpecReset == Init /\ [][NextReset]_vars

----------------------------------------------------------------------------
(* Properties                                                              *)

world_vars == <<objects, kill_queue, last_id>>

\* the last call was name
Called(name) == op.name = name

\* the ObjectIDs create has returned since construction or the last clean
Issued == {issued[k] : k \in 1..Len(issued)}

\* positions of trace tr at which the objects of ids are erased
ErasedAt(tr, id) == {k \in 1..Len(tr) : tr[k].ev = "erase" /\ id \in tr[k].ids}

\* some hook of the call recorded in tr called back into the World
Reentered(tr) == \E k \in 1..Len(tr) : tr[k].ev = "kill"

\* C1: between two clean calls the ids returned by create are strictly
\* increasing, hence pairwise distinct: an id is never issued a second time,
\* also not after dispatch removed its object.
IdsStrictlyIncreasing ==
    \A i, j \in 1..Len(issued) : i < j => U64Less(issued[i], issued[j])

\* create has just returned while the object of an earlier id of the same
\* epoch was already removed (by dispatch)
IdIssuedAfterRemoval ==
    /\ Called("create")
    /\ Len(issued) >= 2
    /\ issued[1] \notin DOMAIN objects
    /\ op.ret[1] \in DOMAIN objects

\* C2: the first create on a fresh World returns 0 ((ObjectID)-1 wraps to 0),
\* and so does the first create after any clean.
FirstIdIsZero ==
    issued # <<>> => issued[1] = U64(0)

\* create has just returned 0 after a clean that followed two or more creates
ZeroAgainAfterClean ==
    /\ Called("create")
    /\ recycled
    /\ Len(issued) = 1
    /\ op.ret = <<U64(0)>>

\* C3: kill(id) with id not a key of objects returns false and changes neither
\* kill_queue nor objects nor last_id.
KillAbsentChangesNothing ==
    [][(op'.name = "kill" /\ op'.arg[1] \notin DOMAIN objects)
          => (op'.ret = <<FALSE>> /\ UNCHANGED world_vars)]_vars

\* kill has just returned false for an id whose object dispatch had removed
KillOfRemovedRefused ==
    /\ Called("kill")
    /\ op.ret = <<FALSE>>
    /\ op.arg[1] \in Issued
    /\ op.arg[1] \notin DOMAIN objects

\* C4: kill(id) on a live id returns true, the first time and when id is
\* already queued, and the second call leaves the World as the first left it.
KillTwiceIsKillOnce ==
    [][(op'.name = "kill" /\ op'.arg[1] \in DOMAIN objects)
          => /\ op'.ret = <<TRUE>>
             /\ op'.arg[1] \in kill_queue'
             /\ op'.arg[1] \in kill_queue => UNCHANGED world_vars]_vars

\* kill has just returned true for a live id that was already queued
KilledTwice ==
    /\ Called("kill")
    /\ op.ret = <<TRUE>>
    /\ op.arg[2] = TRUE
    /\ op.arg[1] \in kill_queue

\* C5: kill(id) on a live id changes neither objects nor any script sequence,
\* runs no dead hook, and seek(id) still finds the object.
KillDestroysNothing ==
    [][(op'.name = "kill" /\ op'.ret = <<TRUE>>)
          => /\ objects' = objects
             /\ Seek(world', op'.arg[1])
             /\ ndead' = ndead
             /\ trace' = <<>>]_vars

\* kill has just returned true for an object that carries scripts, and the
\* object is still there with them
KilledStillThere ==
    /\ Called("kill")
    /\ op.ret = <<TRUE>>
    /\ Seek(world, op.arg[1])
    /\ objects[op.arg[1]] # <<>>

\* C6: when dispatch<H> is called with the object of scripts [A, B] (any
\* non-empty sequence) in the kill queue, the call runs dead on the scripts
\* once each in attach order, erases the object after that, and runs H on
\* none of them.
CondemnedGetDeadInOrder ==
    [][op'.name = "dispatch" =>
          \A id \in kill_queue \cap DOMAIN objects :
              objects[id] # <<>> =>
                  /\ id \notin DOMAIN objects'
                  /\ \A k \in 1..Len(objects[id]) :
                        /\ Cardinality(At(trace', objects[id][k].inst, "dead")) = 1
                        /\ HookAt(trace', objects[id][k].inst) = {}
                        /\ \E e \in ErasedAt(trace', id) :
                              \A d \in At(trace', objects[id][k].inst, "dead") : d < e
                  /\ \A k, l \in 1..Len(objects[id]) :
                        k < l =>
                            \A d \in At(trace', objects[id][k].inst, "dead") :
                                \A e \in At(trace', objects[id][l].inst, "dead") : d < e]_vars

\* dispatch has just run dead on the two scripts of one queued object and
\* erased it
TwoScriptsCondemned ==
    /\ Called("dispatch")
    /\ Len(trace) >= 3
    /\ trace[1].ev = "dead"
    /\ trace[2].ev = "dead"
    /\ trace[1].inst # trace[2].inst
    /\ trace[3].ev = "erase"
    /\ Cardinality(trace[3].ids) = 1
    /\ \A id \in trace[3].ids : id \notin DOMAIN objects

\* C7: for a dispatch<H> whose hooks do not call back into the World: each
\* script of a live, non-queued object receives H exactly once, each script
\* of a queued object receives H zero times, and afterwards seek finds no
\* queued id and finds every non-queued id.
DispatchPartition ==
    [][(op'.name = "dispatch" /\ ~Reentered(trace')) =>
          /\ \A id \in DOMAIN objects \ kill_queue :
                /\ Seek(world', id)
                /\ \A k \in 1..Len(objects[id]) :
                      Cardinality(HookAt(trace', objects[id][k].inst)) = 1
          /\ \A id \in DOMAIN objects \cap kill_queue :
                /\ ~Seek(world', id)
                /\ \A k \in 1..Len(objects[id]) :
                      HookAt(trace', objects[id][k].inst) = {}]_vars

\* C8: each Script instance receives dead at most once, and no hook after it.
DeadOnceAndLast ==
    \A i \in Insts : ndead[i] <= 1 /\ i \notin late

\* a dispatch has just run a hook on a script while another script had
\* received dead in an earlier call
HookAfterOthersDeath ==
    /\ Called("dispatch")
    /\ \E i \in Insts :
          /\ ndead[i] = 1
          /\ At(trace, i, "dead") = {}
          /\ \E k \in 1..Len(trace) : trace[k].ev \in Hooks /\ trace[k].inst # i

\* C9: when dispatch is called on a non-empty World, every id in the kill
\* queue is absent from objects when the call returns, and the kill queue
\* is empty.
KillReconciledByNextDispatch ==
    [][(op'.name = "dispatch" /\ DOMAIN objects # {})
          => /\ \A id \in kill_queue : id \notin DOMAIN objects'
             /\ kill_queue' = {}]_vars

\* C10: the kill queue holds keys of objects only.
KillQueueLive ==
    kill_queue \subseteq DOMAIN objects

\* kill has just queued a live id after a dispatch had removed another object
PendingAfterRemoval ==
    /\ Called("kill")
    /\ op.ret = <<TRUE>>
    /\ kill_queue # {}
    /\ kill_queue \subseteq DOMAIN objects
    /\ \E id \in Issued : id \notin DOMAIN objects

\* the ObjectIDs the properties range over
Ids == DOMAIN objects \cup IdInputs

\* positions of trace tr at which a hook calls kill(id)
KilledAt(tr, id) == {k \in 1..Len(tr) : tr[k].ev = "kill" /\ id \in tr[k].ids}

DeadBeforeErase ==
    [][op'.name = "dispatch" =>
          \A id \in DOMAIN objects \ DOMAIN objects' :
              \A k \in 1..Len(objects[id]) :
                  \E d \in At(trace', objects[id][k].inst, "dead") :
                      \E e \in ErasedAt(trace', id) : d < e]_vars

\* C12: clean runs dead exactly once on every script of every object of the
\* mapping, queued or not, before the mapping is cleared, and leaves objects
\* and kill_queue empty.
CleanNotifiesAll ==
    [][op'.name = "clean" =>
          /\ DOMAIN objects' = {}
          /\ kill_queue' = {}
          /\ \A id \in DOMAIN objects :
                \A k \in 1..Len(objects[id]) :
                    /\ Cardinality(At(trace', objects[id][k].inst, "dead")) = 1
                    /\ \E e \in ErasedAt(trace', id) :
                          \A d \in At(trace', objects[id][k].inst, "dead") : d < e]_vars

\* clean has just run dead on the scripts of a queued and of a non-queued
\* object and cleared the mapping
CleanedQueuedAndNot ==
    /\ Called("clean")
    /\ op.arg = <<TRUE, TRUE>>
    /\ \E i, j \in Insts : i # j /\ At(trace, i, "dead") # {} /\ At(trace, j, "dead") # {}
    /\ DOMAIN objects = {}
    /\ kill_queue = {}

\* the script sequence s without its i-th element
Without(s, i) == SubSeq(s, 1, i - 1) \o SubSeq(s, i + 1, Len(s))

\* i is the first script of s, in attach order, that matches T
FirstMatch(s, T, i) ==
    /\ i \in 1..Len(s)
    /\ Derives(s[i].type, T)
    /\ \A j \in 1..(i - 1) : ~Derives(s[j].type, T)

\* C13: grant<T> on an object that already carries a script matching T
\* returns that script's instance, constructs nothing and leaves every script
\* sequence as it was; a grant<T> that follows a grant<T> on the same object
\* returns the instance the first one returned.
GrantIdempotent ==
    [][op'.name = "grant" =>
          /\ Has(objects[op'.arg[1]], op'.arg[2]) =>
                /\ objects' = objects
                /\ next_inst' = next_inst
                /\ \E i \in 1..Len(objects[op'.arg[1]]) :
                      /\ FirstMatch(objects[op'.arg[1]], op'.arg[2], i)
                      /\ op'.ret = <<objects[op'.arg[1]][i].inst>>
          /\ (op.name = "grant" /\ op.arg[1] = op'.arg[1] /\ op.arg[2] = op'.arg[2]) =>
                /\ op'.ret = op.ret
                /\ objects' = objects
                /\ next_inst' = next_inst]_vars

\* grant<C> with another constructor argument has just returned the script the
\* object already carried
GrantedAgain ==
    /\ Called("grant")
    /\ op.arg[4]
    /\ \E i \in 1..Len(objects[op.arg[1]]) :
          /\ op.ret = <<objects[op.arg[1]][i].inst>>
          /\ objects[op.arg[1]][i].target # op.arg[3]

\* C14: take<T> on an object with no script matching T returns false and
\* leaves the script sequence unchanged.
TakeOfAbsentChangesNothing ==
    [][(op'.name = "take" /\ ~Has(objects[op'.arg[1]], op'.arg[2])) =>
          /\ op'.ret = <<FALSE>>
          /\ objects' = objects]_vars

\* take<T> has just returned false on an object that carries scripts
TookNothing ==
    /\ Called("take")
    /\ op.ret = <<FALSE>>
    /\ objects[op.arg[1]] # <<>>

OnePerConcreteType ==
    \A id \in DOMAIN objects :
        \A i, j \in 1..Len(objects[id]) :
            i # j => objects[id][i].type # objects[id][j].type

\* an object carries a script of a base type and one of its subtype
BaseAndDerivedAttached ==
    \E id \in DOMAIN objects :
        \E i, j \in 1..Len(objects[id]) :
            /\ i # j
            /\ Derives(objects[id][j].type, objects[id][i].type)

\* C15: dispatch on a World without objects invokes no hook and leaves
\* objects, kill_queue and last_id unchanged.
DispatchOnEmptyIsNoOp ==
    [][(op'.name = "dispatch" /\ DOMAIN objects = {}) =>
          /\ trace' = <<>>
          /\ UNCHANGED world_vars
          /\ ndead' = ndead]_vars

\* dispatch has just run on a World whose objects were all removed
DispatchedOnEmptied ==
    /\ Called("dispatch")
    /\ DOMAIN objects = {}
    /\ trace = <<>>
    /\ kill_queue = {}
    /\ last_id # U64Max

\* C17: within one dispatch every dead precedes every invocation of the
\* requested hook, and the scripts of one object receive dead, and the
\* requested hook, in attach order.
DeadBeforeHooksInAttachOrder ==
    [][op'.name = "dispatch" =>
          /\ \A d, h \in 1..Len(trace') :
                (trace'[d].ev = "dead" /\ trace'[h].ev \in Hooks) => d < h
          /\ \A id \in DOMAIN objects :
                \A k, l \in 1..Len(objects[id]) :
                    \A ev \in Hooks \cup {"dead"} :
                        (k < l /\ At(trace', objects[id][l].inst, ev) # {}) =>
                            /\ At(trace', objects[id][k].inst, ev) # {}
                            /\ \A p \in At(trace', objects[id][k].inst, ev) :
                                  \A q \in At(trace', objects[id][l].inst, ev) : p < q]_vars

\* one dispatch has just run dead on a script and the requested hook on another
DeadThenHook ==
    /\ Called("dispatch")
    /\ \E d, h \in 1..Len(trace) : trace[d].ev = "dead" /\ trace[h].ev \in Hooks

\* C18: no operation takes an id out of kill_queue and leaves it in objects,
\* and an id that was removed is not in objects again before a clean.
NeverUnmarked ==
    [][/\ \A id \in kill_queue : id \in DOMAIN objects' => id \in kill_queue'
       /\ \A id \in Issued \ DOMAIN objects : id \notin DOMAIN objects']_vars

\* an id queued by an earlier kill is still live and queued after a dispatch
\* that ran hooks
MarkedAcrossDispatch ==
    /\ Called("dispatch")
    /\ trace # <<>>
    /\ \E id \in kill_queue : id \in DOMAIN objects /\ KilledAt(trace, id) = {}

\* the ids on which a requested hook recorded in tr called kill
KilledByHook(tr) ==
    UNION {tr[k].ids : k \in {j \in 2..Len(tr) : tr[j].ev = "kill" /\ tr[j - 1].ev \in Hooks}}

\* the ids erased by the call recorded in tr
Erased(tr) == UNION {tr[k].ids : k \in {j \in 1..Len(tr) : tr[j].ev = "erase"}}

\* first part of C21: an object that is live when a requested hook of a
\* dispatch calls kill on it stays in objects, queued, for the rest of that
\* dispatch, and its scripts receive the requested hook exactly once in it.
HookKillSparesThisDispatch ==
    [][op'.name = "dispatch" =>
          \A id \in (KilledByHook(trace') \cap DOMAIN objects) \ Erased(trace') :
              /\ id \in DOMAIN objects'
              /\ id \in kill_queue'
              /\ \A k \in 1..Len(objects[id]) :
                    Cardinality(HookAt(trace', objects[id][k].inst)) = 1]_vars

\* second part of C21: an object on which a requested hook of a dispatch
\* called kill while it was live is removed, dead delivered to its scripts
\* first, by the dispatch that follows.
HookKillReconciledByNextDispatch ==
    [][(op.name = "dispatch" /\ op'.name = "dispatch") =>
          \A id \in KilledByHook(trace) \cap DOMAIN objects :
              /\ id \notin DOMAIN objects'
              /\ \A k \in 1..Len(objects[id]) :
                    \E d \in At(trace', objects[id][k].inst, "dead") :
                        \E e \in ErasedAt(trace', id) : d < e]_vars

\* C21: an object that is live when a requested hook of a dispatch calls kill
\* on it stays in objects for the rest of that dispatch, its scripts receive
\* the requested hook exactly once in it, and the dispatch that follows
\* removes it after delivering dead to its scripts.
HookKillDeferred ==
    [][/\ op'.name = "dispatch" =>
             \A id \in (KilledByHook(trace') \cap DOMAIN objects) \ Erased(trace') :
                 /\ id \in DOMAIN objects'
                 /\ \A k \in 1..Len(objects[id]) :
                       Cardinality(HookAt(trace', objects[id][k].inst)) = 1
       /\ (op.name = "dispatch" /\ op'.name = "dispatch") =>
             \A id \in KilledByHook(trace) \cap DOMAIN objects :
                 /\ id \notin DOMAIN objects'
                 /\ \A k \in 1..Len(objects[id]) :
                       \E d \in At(trace', objects[id][k].inst, "dead") :
                           \E e \in ErasedAt(trace', id) : d < e]_vars

\* C22: clean empties kill_queue, so an object created afterwards under an id
\* that was pending removal at that clean is not in kill_queue, and the next
\* dispatch, when kill has not been called on the new object, leaves it in
\* objects and runs the requested hook, and no dead, on each of its scripts.
RequestDiesWithClean ==
    [][/\ op'.name = "clean" => kill_queue' = {}
       /\ op'.name = "create" => op'.ret[1] \notin kill_queue'
       /\ op'.name = "dispatch" =>
             \A id \in (wiped \cap DOMAIN objects) \ (kill_queue \cup Inserted(trace')) :
                 /\ id \in DOMAIN objects'
                 /\ \A k \in 1..Len(objects[id]) :
                       /\ Cardinality(HookAt(trace', objects[id][k].inst)) = 1
                       /\ At(trace', objects[id][k].inst, "dead") = {}]_vars

\* dispatch has just run the requested hook on the script of an object whose
\* number was pending removal at the last clean
RecreatedGotHook ==
    /\ Called("dispatch")
    /\ \E id \in op.arg[2] \cap DOMAIN objects :
          /\ objects[id] # <<>>
          /\ \A k \in 1..Len(objects[id]) : HookAt(trace, objects[id][k].inst) # {}

====
